---- MODULE Spec2Model ----
(***************************************************************************)
(* Model of the miami_room library (src/src/lib.rs): the Time / Date /     *)
(* TimeRange value types, the per-room availability map that is filled     *)
(* slot by slot while Schedule::new walks the document, and the queries    *)
(* that run on the finished Schedule.                                      *)
(*                                                                         *)
(* A panic of the Rust code is a value [tag |-> "panic"] of the operator   *)
(* that raised it, and pc = "panicked" once an action has hit one.         *)
(***************************************************************************)
EXTENDS Integers, Sequences, FiniteSets, TLC

VARIABLES
    pc,       \* "building" (inside Schedule::new), "built", "panicked"; "time" in SpecTime
    rooms,    \* Schedule.rooms / the local `rooms` of Schedule::new: Seq of rooms
    k,        \* the room of the row Schedule::new is working on, or NoRoom
    out,      \* the value a query has returned to its caller, with the call's
              \* arguments; NoOut while the caller holds no result
    t_self,   \* receiver of Time::add
    t_other,  \* argument of Time::add
    t_sum     \* value Time::add returned, or NoTime

vars == <<pc, rooms, k, out, t_self, t_other, t_sum>>

\* ------------------------------------------------------------------ bounds
MaxRooms == 2
MaxSlots == 3

\* ------------------------------------------------------- program constants
MaxHour == 23
MaxMinute == 59
MaxMonth == 12
MaxDay == 31
SlotMinutes == 30
MaxReserveMinutes == 120

\* ---------------------------------------------------------- integer widths
\* u8 arithmetic wraps at 2^8. The u32 values of the program (minutes since
\* midnight, and sums and differences of them) are at most 255 * 60 + 255
\* times the number of slots, far below 2^32, and length_minutes is only
\* taken of ranges with start <= end, so u32 arithmetic is plain arithmetic.
U8(x) == x % 256
U8Max == 255
U16Max == 65535
I32Max == 2147483647

PanicV == [tag |-> "panic"]
NoneV == [tag |-> "None"]
SomeV(v) == [tag |-> "Some", val |-> v]

\* ------------------------------------------------------------ Time, Date
Time(hour, minute) == [hour |-> hour, minute |-> minute]
Date(year, month, day) == [year |-> year, month |-> month, day |-> day]

\* Time::new: a Time, or a panic when a field is out of range.
Time_new(hour, minute) ==
    IF hour > MaxHour THEN PanicV
    ELSE IF minute > MaxMinute THEN PanicV
    ELSE [tag |-> "ok", val |-> Time(hour, minute)]

\* Date::new: a Date, or a panic when month or day is out of range.
Date_new(year, month, day) ==
    IF 1 > month \/ month > MaxMonth THEN PanicV
    ELSE IF 1 > day \/ day > MaxDay THEN PanicV
    ELSE [tag |-> "ok", val |-> Date(year, month, day)]

\* Time::add with the carry of the minutes left out.
Time_add_no_carry(self, other) ==
    Time(U8(self.hour + other.hour), U8(self.minute + other.minute) % 60)

\* Time::add: the four u8 statements, in order.
Time_add(self, other) ==
    LET m1 == U8(self.minute + other.minute)
        h1 == U8(self.hour + (m1 \div 60))
        m2 == m1 % 60
        h2 == U8(h1 + other.hour)
    IN  Time(h2, m2)

as_minutes(t) == t.hour * 60 + t.minute

\* Ord for Time.
Time_cmp(a, b) ==
    IF a.hour = b.hour /\ a.minute = b.minute THEN "Equal"
    ELSE IF as_minutes(a) < as_minutes(b) THEN "Less"
    ELSE "Greater"

\* ------------------------------------------------------------- TimeRange
TimeRange(start, end) == [start |-> start, end |-> end]

\* contains_time with the end of the interval included.
contains_time_closed(r, time) ==
    as_minutes(r.start) <= as_minutes(time) /\ as_minutes(time) <= as_minutes(r.end)

contains_time(r, time) ==
    LET min == as_minutes(time)
    IN  as_minutes(r.start) <= min /\ min < as_minutes(r.end)

length_minutes(r) == as_minutes(r.end) - as_minutes(r.start)

\* Ord for TimeRange: by start only.
TimeRange_cmp(a, b) == Time_cmp(a.start, b.start)

\* -------------------------------------------------------- decimal parsing
DigitChars == <<"0", "1", "2", "3", "4", "5", "6", "7", "8", "9">>
IsDigit(c) == \E i \in 1..Len(DigitChars) : DigitChars[i] = c
DigitVal(c) == (CHOOSE i \in 1..Len(DigitChars) : DigitChars[i] = c) - 1

RECURSIVE DecimalValue(_)
DecimalValue(s) ==
    IF s = <<>> THEN 0
    ELSE 10 * DecimalValue(SubSeq(s, 1, Len(s) - 1)) + DigitVal(s[Len(s)])

\* str::parse for an unsigned or non-negative decimal of at most `max`:
\* Err on the empty string, on a character that is no digit, on overflow.
parse(s, max) ==
    IF s = <<>> THEN [tag |-> "Err"]
    ELSE IF \E i \in 1..Len(s) : ~IsDigit(s[i]) THEN [tag |-> "Err"]
    ELSE IF DecimalValue(s) > max THEN [tag |-> "Err"]
    ELSE [tag |-> "Ok", val |-> DecimalValue(s)]

\* str::split_at: panics when mid is past the end of the string.
split_at(s, mid) ==
    IF mid > Len(s) THEN PanicV
    ELSE [tag |-> "ok", head |-> SubSeq(s, 1, mid), tail |-> SubSeq(s, mid + 1, Len(s))]

\* TimeRange::parse_stamp: Some(<<date, time>>), None, or a panic.
parse_stamp(stamp) ==
    LET s1 == split_at(stamp, 4) IN
    IF s1.tag = "panic" THEN PanicV ELSE
    LET s2 == split_at(s1.tail, 2) IN
    IF s2.tag = "panic" THEN PanicV ELSE
    LET s3 == split_at(s2.tail, 2) IN
    IF s3.tag = "panic" THEN PanicV ELSE
    LET s4 == split_at(s3.tail, 2) IN
    IF s4.tag = "panic" THEN PanicV ELSE
    LET s5 == split_at(s4.tail, 2) IN
    IF s5.tag = "panic" THEN PanicV ELSE
    LET year == parse(s1.head, I32Max)
        month == parse(s2.head, U8Max)
        day == parse(s3.head, U8Max)
        hour == parse(s4.head, U8Max)
        minute == parse(s5.head, U8Max)
    IN  IF year.tag = "Err" THEN NoneV
        ELSE IF month.tag = "Err" THEN NoneV
        ELSE IF day.tag = "Err" THEN NoneV
        ELSE IF hour.tag = "Err" THEN NoneV
        ELSE IF minute.tag = "Err" THEN NoneV
        ELSE LET d == Date_new(year.val, month.val, day.val)
                 t == Time_new(hour.val, minute.val)
             IN  IF d.tag = "panic" THEN PanicV
                 ELSE IF t.tag = "panic" THEN PanicV
                 ELSE SomeV(<<d.val, t.val>>)

\* ------------------------------------------------------------------- sort
\* Where a stable sort puts x among the already sorted elements: before the
\* first element that compares Greater than x.
insert(sorted, x) ==
    LET later == {i \in 1..Len(sorted) : TimeRange_cmp(sorted[i], x) = "Greater"}
        p == IF later = {} THEN Len(sorted) + 1
             ELSE CHOOSE i \in later : \A j \in later : i <= j
    IN  SubSeq(sorted, 1, p - 1) \o <<x>> \o SubSeq(sorted, p, Len(sorted))

\* Vec::sort left out: the vector stays in push order.
sort_skipped(v) == v

\* Vec::sort (stable), by Ord for TimeRange.
RECURSIVE sort(_)
sort(v) ==
    IF v = <<>> THEN <<>>
    ELSE insert(sort(SubSeq(v, 1, Len(v) - 1)), v[Len(v)])

\* --------------------------------------------------------- KingStudyRoom
NoRoom == [tag |-> "NoRoom"]

\* The empty HashMap: a function with no key.
EmptyMap == [x \in {} |-> <<>>]

KingStudyRoom(number, capacity, available) ==
    [tag |-> "room", room_number |-> number, person_capacity |-> capacity,
     available |-> available]

\* A label is what ROOM_NAME_REGEX makes of a room name: whether the name
\* matches, and the two captured digit strings.
\* KingStudyRoom::from_str: Ok(room), Err(NameDoesNotMatch), or the panic of
\* an unwrap on a number that does not fit u16 / u8.
from_str(label) ==
    IF ~label.matches THEN [tag |-> "Err"]
    ELSE LET number == parse(label.number, U16Max)
             capacity == parse(label.capacity, U8Max)
         IN  IF number.tag = "Err" THEN PanicV
             ELSE IF capacity.tag = "Err" THEN PanicV
             ELSE [tag |-> "Ok", val |-> KingStudyRoom(number.val, capacity.val, EmptyMap)]

\* HashMap::insert on the availability map.
map_insert(map, key, value) ==
    [x \in (DOMAIN map) \cup {key} |-> IF x = key THEN value ELSE map[x]]

\* KingStudyRoom::add_availability_from_node. n is the node's "ref"
\* attribute: NoneV, or SomeV(stamp). The room after the call, or a panic.
add_availability_from_node(room, n) ==
    IF n.tag = "None" THEN [tag |-> "ok", val |-> room]
    ELSE LET parsed == parse_stamp(n.val) IN
         IF parsed.tag = "panic" THEN PanicV
         ELSE IF parsed.tag = "None" THEN [tag |-> "ok", val |-> room]
         ELSE LET day == parsed.val[1]
                  start == parsed.val[2]
                  end == Time_add(start, Time(0, SlotMinutes))
                  range == TimeRange(start, end)
                  intervals == IF day \in DOMAIN room.available
                               THEN sort(Append(room.available[day], range))
                               ELSE sort(Append(<<>>, range))
              IN  [tag |-> "ok",
                   val |-> [room EXCEPT !.available = map_insert(@, day, intervals)]]

\* KingStudyRoom::is_available.
is_available(room, d, t) ==
    IF d \in DOMAIN room.available
    THEN \E i \in 1..Len(room.available[d]) : contains_time(room.available[d][i], t)
    ELSE FALSE

\* ------------------------------------- KingStudyRoom::find_available_ranges
ZeroRange == TimeRange(Time(0, 0), Time(0, 0))

\* The locals of find_available_ranges. cuts is not in the code: it records
\* Len(available) at the end of each pass of the outer loop, so that the
\* ranges one date produced can be told apart in the flat result.
ScanStart ==
    [length_so_far |-> 0, range |-> ZeroRange, last |-> ZeroRange,
     available |-> <<>>, cuts |-> <<>>]

\* The inner loop body with the gap test dropped: every interval after the
\* first extends the open block.
scan_interval_no_gap(st, interval, minutes) ==
    [(IF st.length_so_far = 0
      THEN [st EXCEPT !.range = TimeRange(interval.start, interval.end),
                      !.length_so_far = length_minutes(interval)]
      ELSE [st EXCEPT !.range = TimeRange(@.start, interval.end),
                      !.length_so_far = @ + length_minutes(interval)])
     EXCEPT !.last = interval]

\* The inner loop body with the block's start not set when a block opens.
scan_interval_stale_start(st, interval, minutes) ==
    [(IF st.length_so_far = 0
      THEN [st EXCEPT !.range = TimeRange(@.start, interval.end),
                      !.length_so_far = length_minutes(interval)]
      ELSE IF interval.start = st.last.end
      THEN [st EXCEPT !.range = TimeRange(@.start, interval.end),
                      !.length_so_far = @ + length_minutes(interval)]
      ELSE [st EXCEPT !.available = IF st.length_so_far >= minutes
                                    THEN Append(@, st.range) ELSE @,
                      !.length_so_far = 0,
                      !.range = ZeroRange,
                      !.last = ZeroRange])
     EXCEPT !.last = interval]

\* One pass of the inner loop (lines 178-198) on one interval.
scan_interval(st, interval, minutes) ==
    [(IF st.length_so_far = 0
      THEN [st EXCEPT !.range = TimeRange(interval.start, interval.end),
                      !.length_so_far = length_minutes(interval)]
      ELSE IF interval.start = st.last.end
      THEN [st EXCEPT !.range = TimeRange(@.start, interval.end),
                      !.length_so_far = @ + length_minutes(interval)]
      ELSE [st EXCEPT !.available = IF st.length_so_far >= minutes
                                    THEN Append(@, st.range) ELSE @,
                      !.length_so_far = 0,
                      !.range = ZeroRange,
                      !.last = ZeroRange])
     EXCEPT !.last = interval]

\* The inner loop over the intervals from index i on.
RECURSIVE scan_intervals(_, _, _, _)
scan_intervals(st, intervals, i, minutes) ==
    IF i > Len(intervals) THEN st
    ELSE scan_intervals(scan_interval(st, intervals[i], minutes), intervals, i + 1, minutes)

\* One pass of the outer loop (lines 173-203) on one date's intervals.
scan_date(st, intervals, minutes) ==
    LET reset == [st EXCEPT !.length_so_far = 0, !.range = ZeroRange, !.last = ZeroRange]
        scanned == scan_intervals(reset, intervals, 1, minutes)
        pushed == IF scanned.length_so_far # 0
                  THEN [scanned EXCEPT !.available = Append(@, scanned.range)]
                  ELSE scanned
    IN  [pushed EXCEPT !.cuts = Append(@, Len(pushed.available))]

\* The outer loop over the dates in the order HashMap::values yields them.
RECURSIVE scan_dates(_, _, _, _, _)
scan_dates(st, room, order, j, minutes) ==
    IF j > Len(order) THEN st
    ELSE scan_dates(scan_date(st, room.available[order[j]], minutes),
                    room, order, j + 1, minutes)

\* The orders HashMap::values may yield the map's entries in: any.
Orders(map) ==
    {o \in [1..Cardinality(DOMAIN map) -> DOMAIN map] :
        \A i, j \in 1..Cardinality(DOMAIN map) : i # j => o[i] # o[j]}

\* KingStudyRoom::find_available_ranges, iterating the dates in `order`.
Room_find_available_ranges(room, minutes, order) ==
    IF minutes > MaxReserveMinutes THEN PanicV
    ELSE LET st == scan_dates(ScanStart, room, order, 1, minutes)
         IN  [tag |-> "ok", val |-> st.available, cuts |-> st.cuts]

\* --------------------------------------------------------------- Schedule
\* Schedule::all_available_at_datetime: the rooms pushed, in the order of
\* self.rooms. A &KingStudyRoom is the room's index in self.rooms.
RECURSIVE all_available_at_datetime(_, _, _, _, _)
all_available_at_datetime(available, rs, i, d, t) ==
    IF i > Len(rs) THEN available
    ELSE all_available_at_datetime(
             IF is_available(rs[i], d, t) THEN Append(available, i) ELSE available,
             rs, i + 1, d, t)

\* The loop of Schedule::find_available_ranges from room i on; orders[i] is
\* the order room i's HashMap is iterated in.
RECURSIVE Schedule_collect(_, _, _, _, _)
Schedule_collect(map, rs, i, minutes, orders) ==
    IF i > Len(rs) THEN [tag |-> "ok", val |-> map]
    ELSE LET r == Room_find_available_ranges(rs[i], minutes, orders[i])
         IN  IF r.tag = "panic" THEN PanicV
             ELSE Schedule_collect(map_insert(map, rs[i].room_number, r.val),
                                   rs, i + 1, minutes, orders)

\* Schedule::find_available_ranges.
Schedule_find_available_ranges(rs, minutes, orders) ==
    Schedule_collect(EmptyMap, rs, 1, minutes, orders)

\* The iteration orders of all the rooms' maps, one per room.
ScheduleOrders(rs) ==
    {o \in [1..Len(rs) -> UNION {Orders(rs[i].available) : i \in 1..Len(rs)}] :
        \A i \in 1..Len(rs) : o[i] \in Orders(rs[i].available)}

\* ----------------------------------------------------------------- inputs
Field2(n) == <<DigitChars[(n \div 10) + 1], DigitChars[(n % 10) + 1]>>

\* The "ref" attribute of a slot of 2016: YYYYMMDDHHMM and a suffix.
Stamp(month, day, hour, minute) ==
    <<"2", "0", "1", "6">> \o Field2(month) \o Field2(day) \o Field2(hour)
        \o Field2(minute) \o <<"0", "5">>

GoodStamps ==
    {Stamp(5, 8, 8, 0), Stamp(5, 8, 8, 30), Stamp(5, 8, 8, 45), Stamp(5, 8, 9, 30),
     Stamp(5, 9, 8, 30)}

\* Stamps with a field that is no number, and a stamp that is too short.
NonNumericStamps ==
    {<<"2", "0", "1", "6", "0", "5", "x", "x", "0", "8", "3", "0">>,
     <<"2", "0", "1", "6", "0", "5", "0", "8", "0", "8", "3", "x", "0", "5">>}
ShortStamps == {<<"2", "0", "1", "6", "0", "5", "0", "8">>}

\* Stamps with a month, day, hour or minute outside the Date / Time ranges.
OutOfRangeStamps ==
    {Stamp(5, 99, 8, 30), Stamp(13, 8, 8, 30), Stamp(5, 8, 24, 0), Stamp(5, 8, 8, 60)}

Nodes ==
    {NoneV} \cup {SomeV(s) : s \in GoodStamps \cup NonNumericStamps \cup ShortStamps
                                    \cup OutOfRangeStamps}

Labels ==
    {[matches |-> TRUE, number |-> <<"2", "0", "4">>, capacity |-> <<"4">>],
     [matches |-> TRUE, number |-> <<"2", "0", "5">>, capacity |-> <<"6">>],
     [matches |-> TRUE, number |-> <<"7", "0", "0", "0", "0">>, capacity |-> <<"4">>],
     [matches |-> FALSE, number |-> <<>>, capacity |-> <<>>]}

QueryDates == {Date(2016, 5, 8), Date(2016, 5, 9), Date(2016, 5, 10)}
QueryTimes ==
    {Time(8, 0), Time(8, 29), Time(8, 30), Time(9, 0)}
QueryMinutes == {30, 60, MaxReserveMinutes, MaxReserveMinutes + 1}

\* All the values Time::new returns without a panic.
Times == {Time(h, m) : h \in 0..MaxHour, m \in 0..MaxMinute}
NoTime == [tag |-> "NoTime"]

\* -------------------------------------------------------------- slot count
RECURSIVE SumLen(_, _)
SumLen(map, keys) ==
    IF keys = {} THEN 0
    ELSE LET d == CHOOSE x \in keys : TRUE
         IN  Len(map[d]) + SumLen(map, keys \ {d})

SlotsIn(room) == IF room = NoRoom THEN 0 ELSE SumLen(room.available, DOMAIN room.available)

RECURSIVE SlotsInRooms(_, _)
SlotsInRooms(rs, i) == IF i > Len(rs) THEN 0 ELSE SlotsIn(rs[i]) + SlotsInRooms(rs, i + 1)

TotalSlots == SlotsInRooms(rooms, 1) + SlotsIn(k)

NoOut == [op |-> "none"]

\* ---------------------------------------------------------------- actions
Init ==
    /\ pc = "building"
    /\ rooms = <<>>
    /\ k = NoRoom
    /\ out = NoOut
    /\ t_self = NoTime
    /\ t_other = NoTime
    /\ t_sum = NoTime

\* Schedule::new, line 66: the room of the next row, from its name.
BeginRow(label) ==
    /\ pc = "building"
    /\ k = NoRoom
    /\ Len(rooms) < MaxRooms
    /\ LET r == from_str(label)
       IN  IF r.tag = "Ok"
           THEN k' = r.val /\ pc' = pc
           ELSE k' = k /\ pc' = "panicked"
    /\ UNCHANGED <<rooms, out, t_self, t_other, t_sum>>

\* Schedule::new, line 69: one slot node of the row.
AddSlot(n) ==
    /\ pc = "building"
    /\ k # NoRoom
    /\ TotalSlots < MaxSlots
    /\ LET r == add_availability_from_node(k, n)
       IN  IF r.tag = "panic"
           THEN k' = k /\ pc' = "panicked"
           ELSE k' = r.val /\ pc' = pc
    /\ UNCHANGED <<rooms, out, t_self, t_other, t_sum>>

\* Schedule::new, line 72.
PushRoom ==
    /\ pc = "building"
    /\ k # NoRoom
    /\ rooms' = Append(rooms, k)
    /\ k' = NoRoom
    /\ UNCHANGED <<pc, out, t_self, t_other, t_sum>>

\* Schedule::new, line 75: no row is left.
ReturnSchedule ==
    /\ pc = "building"
    /\ k = NoRoom
    /\ pc' = "built"
    /\ UNCHANGED <<rooms, k, out, t_self, t_other, t_sum>>

AllAvailableAtDatetime(d, t) ==
    /\ pc = "built"
    /\ out = NoOut
    /\ out' = [op |-> "all_available_at_datetime", d |-> d, t |-> t,
               val |-> all_available_at_datetime(<<>>, rooms, 1, d, t)]
    /\ UNCHANGED <<pc, rooms, k, t_self, t_other, t_sum>>

ScheduleFindAvailableRanges(minutes, orders) ==
    /\ pc = "built"
    /\ out = NoOut
    /\ LET r == Schedule_find_available_ranges(rooms, minutes, orders)
       IN  /\ out' = [op |-> "Schedule::find_available_ranges", minutes |-> minutes,
                      orders |-> orders, ret |-> r]
           /\ pc' = IF r.tag = "panic" THEN "panicked" ELSE pc
    /\ UNCHANGED <<rooms, k, t_self, t_other, t_sum>>

RoomFindAvailableRanges(i, minutes, order) ==
    /\ pc = "built"
    /\ out = NoOut
    /\ LET r == Room_find_available_ranges(rooms[i], minutes, order)
       IN  /\ out' = [op |-> "KingStudyRoom::find_available_ranges", room |-> i,
                      minutes |-> minutes, order |-> order, ret |-> r]
           /\ pc' = IF r.tag = "panic" THEN "panicked" ELSE pc
    /\ UNCHANGED <<rooms, k, t_self, t_other, t_sum>>

\* The caller is done with the value of its last query and drops it; the
\* Schedule is as it was (every query takes &self).
DropResult ==
    /\ pc = "built"
    /\ out # NoOut
    /\ out' = NoOut
    /\ UNCHANGED <<pc, rooms, k, t_self, t_other, t_sum>>

Next ==
    \/ \E label \in Labels : BeginRow(label)
    \/ \E n \in Nodes : AddSlot(n)
    \/ PushRoom
    \/ ReturnSchedule
    \/ \E d \in QueryDates, t \in QueryTimes : AllAvailableAtDatetime(d, t)
    \/ \E minutes \in QueryMinutes, orders \in ScheduleOrders(rooms) :
           ScheduleFindAvailableRanges(minutes, orders)
    \/ \E i \in 1..Len(rooms), minutes \in QueryMinutes :
           \E order \in Orders(rooms[i].available) :
               RoomFindAvailableRanges(i, minutes, order)
    \/ DropResult

Spec == Init /\ [][Next]_vars

\* ------------------------------------------------ Time::add on its own
\* The arguments Time::add is called with here: every minute, and hours at
\* both ends and in the middle of the range (2:50 is the test's, line 354).
OtherTimes ==
    {Time(h, m) : h \in {0, 1, 2, 11, 12, 13, 22, MaxHour}, m \in 0..MaxMinute}

InitTime ==
    /\ pc = "time"
    /\ rooms = <<>>
    /\ k = NoRoom
    /\ out = NoOut
    /\ t_self \in Times
    /\ t_other = NoTime
    /\ t_sum = NoTime

TimeAdd(other) ==
    /\ pc = "time"
    /\ t_sum = NoTime
    /\ t_other' = other
    /\ t_sum' = Time_add(t_self, other)
    /\ UNCHANGED <<pc, rooms, k, out, t_self>>

NextTime == \E other \in OtherTimes : TimeAdd(other)

SpecTime == InitTime /\ [][NextTime]_vars

\* ------------------------------------------------------- claim vocabulary
RoomRangesReturned ==
    /\ out.op = "KingStudyRoom::find_available_ranges"
    /\ out.ret.tag = "ok"

\* The ranges the call in `out` pushed while it scanned its j-th date.
ProducedAt(j) ==
    SubSeq(out.ret.val, (IF j = 1 THEN 0 ELSE out.ret.cuts[j - 1]) + 1, out.ret.cuts[j])

Elements(intervals) == {intervals[i] : i \in 1..Len(intervals)}

\* Slots of S lead back to back from time s to time e.
RECURSIVE Linked(_, _, _)
Linked(S, s, e) ==
    \/ s = e
    \/ \E r \in S : r.start = s /\ as_minutes(r.end) <= as_minutes(e) /\ Linked(S, r.end, e)

\* <<s, e>> for every maximal run of back-to-back slots of a date's list.
MaximalRuns(intervals) ==
    LET S == Elements(intervals)
    IN  {se \in {r.start : r \in S} \X {r.end : r \in S} :
            /\ as_minutes(se[1]) < as_minutes(se[2])
            /\ Linked(S, se[1], se[2])
            /\ ~\E r \in S : r.end = se[1]
            /\ ~\E r \in S : r.start = se[2]}

\* C1: every maximal run of back-to-back slots of a date that is at least
\* min_minutes long is in the result of find_available_ranges, as the range
\* from the start of its first slot to the end of its last slot.
C1_EveryLongRunReturned ==
    RoomRangesReturned =>
        \A d \in DOMAIN rooms[out.room].available :
            \A se \in MaximalRuns(rooms[out.room].available[d]) :
                as_minutes(se[2]) - as_minutes(se[1]) >= out.minutes
                    => \E i \in 1..Len(out.ret.val) :
                           out.ret.val[i] = TimeRange(se[1], se[2])

\* C2: every range find_available_ranges returns is at least min_minutes long.
C2_EveryRangeLongEnough ==
    RoomRangesReturned =>
        \A i \in 1..Len(out.ret.val) :
            as_minutes(out.ret.val[i].end) - as_minutes(out.ret.val[i].start) >= out.minutes

\* The stamp holds the five fields and cannot be decoded: a field holds a
\* character that is no digit, or month, day, hour or minute is outside the
\* ranges of Date and Time.
Undecodable(stamp) ==
    /\ Len(stamp) >= 12
    /\ \/ \E i \in 1..12 : ~IsDigit(stamp[i])
       \/ LET month == DecimalValue(SubSeq(stamp, 5, 6))
              day == DecimalValue(SubSeq(stamp, 7, 8))
              hour == DecimalValue(SubSeq(stamp, 9, 10))
              minute == DecimalValue(SubSeq(stamp, 11, 12))
          IN  \/ month < 1 \/ month > 12
              \/ day < 1 \/ day > 31
              \/ hour > 23
              \/ minute > 59

\* C3: adding a slot whose reference cannot be decoded completes without a
\* failure and leaves the room's availability map as it was.
C3_UndecodableSlotIgnored ==
    [][\A n \in Nodes :
          (n.tag = "Some" /\ Undecodable(n.val) /\ AddSlot(n))
              => (pc' = "building" /\ k' = k /\ rooms' = rooms)]_vars

SortedByStart(intervals) ==
    \A a, b \in 1..Len(intervals) :
        a < b => as_minutes(intervals[a].start) <= as_minutes(intervals[b].start)

AllRooms == Elements(rooms) \cup (IF k = NoRoom THEN {} ELSE {k})

\* C4: every date's stored slot list, of every room, is sorted ascending by
\* start time.
C4_SlotListsSorted ==
    \A room \in AllRooms :
        \A d \in DOMAIN room.available : SortedByStart(room.available[d])

\* C4 witness: a date holds three slots, not all of the same start.
C4_Witness ==
    \E room \in AllRooms : \E d \in DOMAIN room.available :
        /\ Len(room.available[d]) >= 3
        /\ room.available[d][1].start # room.available[d][3].start

\* Room i holds under date d a slot with start <= t < end.
HoldsSlotAt(i, d, t) ==
    /\ d \in DOMAIN rooms[i].available
    /\ \E r \in Elements(rooms[i].available[d]) :
           /\ r.start.hour * 60 + r.start.minute <= t.hour * 60 + t.minute
           /\ t.hour * 60 + t.minute < r.end.hour * 60 + r.end.minute

\* C5: all_available_at_datetime(d, t) returns exactly the rooms that hold a
\* slot with start <= t < end under d, each once, in the order of insertion.
C5_ExactlyTheAvailableRooms ==
    out.op = "all_available_at_datetime" =>
        /\ \A a, b \in 1..Len(out.val) : a < b => out.val[a] < out.val[b]
        /\ {out.val[a] : a \in 1..Len(out.val)}
               = {i \in 1..Len(rooms) : HoldsSlotAt(i, out.d, out.t)}

\* C5 witness: a room is returned while another room, which holds under d a
\* slot that ends at t, and a room with no entry for d, are not.
C5_Witness ==
    /\ out.op = "all_available_at_datetime"
    /\ Len(out.val) >= 1
    /\ \E i \in 1..Len(rooms) :
           /\ \A a \in 1..Len(out.val) : out.val[a] # i
           /\ \/ out.d \notin DOMAIN rooms[i].available
              \/ \E r \in Elements(rooms[i].available[out.d]) : r.end = out.t

\* C6: find_available_ranges with min_minutes > 120, on a room or on a
\* Schedule, ends in a panic and returns nothing.
C6_Over120IsFatal ==
    (/\ out.op \in {"KingStudyRoom::find_available_ranges",
                    "Schedule::find_available_ranges"}
     /\ out.minutes > 120)
        => (pc = "panicked" /\ out.ret.tag = "panic")

\* C7: the map Schedule::find_available_ranges returns has, for every room of
\* the Schedule, an entry under the room's number that holds the ranges of
\* that room.
C7_EveryRoomHasItsOwnEntry ==
    (out.op = "Schedule::find_available_ranges" /\ out.ret.tag = "ok") =>
        \A i \in 1..Len(rooms) :
            /\ rooms[i].room_number \in DOMAIN out.ret.val
            /\ out.ret.val[rooms[i].room_number]
                   = Room_find_available_ranges(rooms[i], out.minutes, out.orders[i]).val

\* C8: Time::add(a, b) has minute (a.minute + b.minute) mod 60 and hour
\* a.hour + (a.minute + b.minute) div 60 + b.hour, so that its minutes since
\* midnight are the sum of those of a and b.
C8_AddCarriesMinutes ==
    t_sum # NoTime =>
        /\ t_sum.minute = (t_self.minute + t_other.minute) % 60
        /\ t_sum.hour = t_self.hour + ((t_self.minute + t_other.minute) \div 60) + t_other.hour
        /\ t_sum.hour * 60 + t_sum.minute
               = (t_self.hour * 60 + t_self.minute) + (t_other.hour * 60 + t_other.minute)

\* C8 witness: 10:30 + 2:50 = 13:20, the case of test_time_adding.
C8_Witness ==
    /\ t_self = Time(10, 30)
    /\ t_other = Time(2, 50)
    /\ t_sum = Time(13, 20)

\* Every minute of the range lies in a slot stored under date d.
CoveredUnder(room, d, r) ==
    \A m \in as_minutes(r.start)..(as_minutes(r.end) - 1) :
        is_available(room, d, Time(m \div 60, m % 60))

\* C9: every range find_available_ranges returns has start < end and there
\* is a date of the room whose slots cover every minute of it.
C9_RangesAreFreeTime ==
    RoomRangesReturned =>
        \A i \in 1..Len(out.ret.val) :
            /\ as_minutes(out.ret.val[i].start) < as_minutes(out.ret.val[i].end)
            /\ \E d \in DOMAIN rooms[out.room].available :
                   CoveredUnder(rooms[out.room], d, out.ret.val[i])

\* C9 witness: a room with slots under two dates returns a range for each,
\* one of them merged from two slots.
C9_Witness ==
    /\ RoomRangesReturned
    /\ Cardinality(DOMAIN rooms[out.room].available) = 2
    /\ Len(out.ret.val) = 2
    /\ \E i \in 1..Len(out.ret.val) : length_minutes(out.ret.val[i]) = 2 * SlotMinutes

NonOverlapping(ranges) ==
    \A a, b \in 1..Len(ranges) :
        a < b => as_minutes(ranges[a].end) <= as_minutes(ranges[b].start)

\* C10, as stated: the ranges produced for one date are pairwise
\* non-overlapping and in ascending order of start time, whatever the slots.
C10_DisjointAscendingAlways ==
    RoomRangesReturned =>
        \A j \in 1..Len(out.order) :
            /\ NonOverlapping(ProducedAt(j))
            /\ \A a, b \in 1..Len(ProducedAt(j)) :
                   a < b => as_minutes(ProducedAt(j)[a].start)
                                < as_minutes(ProducedAt(j)[b].start)

\* No two slots of the list share a minute.
SlotsDisjoint(intervals) ==
    \A a, b \in 1..Len(intervals) :
        a # b => \/ as_minutes(intervals[a].end) <= as_minutes(intervals[b].start)
                 \/ as_minutes(intervals[b].end) <= as_minutes(intervals[a].start)

\* C10, amended: the ranges produced for one date are in non-descending
\* order of start time; when no two slots of the date overlap, the ranges
\* are pairwise non-overlapping.
C10_DisjointWhenSlotsDisjoint ==
    RoomRangesReturned =>
        \A j \in 1..Len(out.order) :
            /\ SortedByStart(ProducedAt(j))
            /\ SlotsDisjoint(rooms[out.room].available[out.order[j]])
                   => NonOverlapping(ProducedAt(j))

\* C10 witness: a date whose slots do not overlap produced two ranges.
C10_Witness ==
    /\ RoomRangesReturned
    /\ \E j \in 1..Len(out.order) :
           /\ SlotsDisjoint(rooms[out.room].available[out.order[j]])
           /\ Len(ProducedAt(j)) >= 2

====
